---------------------------- MODULE Spec2Model ----------------------------
(***************************************************************************)
(* State-machine model of the Odoo connection pool                         *)
(* (src/src/infrastructure/odoo/OdooConnectionPool.js), of the part of the *)
(* session client (OdooClient.js) the pool drives, and of the repository   *)
(* operations that use the pool: each one awaits pool.connect() and then   *)
(* one of the pool's verbs, which is withConnection(fn).                   *)
(*                                                                         *)
(* One action is one run of JavaScript between two suspension points: the  *)
(* event loop is cooperative, so the synchronous part of a method, and the *)
(* chain of continuations that follows the settling of one awaited         *)
(* promise, run to their end before a timer or a network event is served.  *)
(***************************************************************************)
EXTENDS Integers, Sequences, FiniteSets, TLC

\* the pool configurations of the model: config.pool.min and config.pool.max
Configs == {[min |-> 1, max |-> 1], [min |-> 1, max |-> 2]}

\* number of repository operations in a run, each using the pool once
NumCallers == 3

\* number of destroy() calls in a run
MaxDestroyCalls == 2

Callers == 1..NumCallers

\* the largest minConnections of the configurations
LargestMin == CHOOSE m \in {cfg.min : cfg \in Configs} :
                \A cfg \in Configs : cfg.min <= m

\* every operation constructs at most minConnections clients, in initialize(),
\* or one client, in acquire()
Conns == 1..(NumCallers * LargestMin)

NoConn == 0
NoTicket == 0

VARIABLES
  minConnections,       \* this.minConnections
  maxConnections,       \* this.maxConnections
  availableConnections, \* this.availableConnections : array of connections
  activeConnections,    \* this.activeConnections    : Set of connections
  connectionQueue,      \* this.connectionQueue      : array of callbacks
  stats,                \* this.stats
  clients,              \* state of every OdooClient object constructed so far
  tickets,              \* the promises made by _waitForConnection, oldest first
  waitTimers,           \* pending setTimeout()s of _waitForConnection, oldest first
  idleTimers,           \* pending setTimeout()s of _setIdleTimeout, oldest first
  callers,              \* where each repository operation stands
  destroyCalls,         \* how often destroy() was called
  instance,             \* OdooConnectionPool.instance: the pool object or null
  pools,                \* number of pool objects constructed so far
  returned,             \* what each getInstance() call was given and gave, oldest first
  retry,                \* config.retry of one OdooClient
  client,               \* the fields connected and uid of that OdooClient
  connectCall,          \* its connect() call: the one running, or the last one
  executeCall,          \* its execute_kw() call: the one running, or the last one
  service               \* the call of a BaseService method: the one running, or the last one

\* The pool variables are the fields of the pool object that
\* OdooConnectionPool.instance refers to (of the last one it referred to,
\* while it is null); pool objects are numbered in the order of construction.
NoInstance == 0

poolVars == <<minConnections, maxConnections, availableConnections, activeConnections,
              connectionQueue, stats, clients, tickets, waitTimers, idleTimers, callers,
              destroyCalls>>

singletonVars == <<instance, pools, returned>>

sessionVars == <<retry, client, connectCall, executeCall>>

serviceVars == <<service>>

\* the variables that are no part of the pool object
beyondPool == <<singletonVars, sessionVars, serviceVars>>

vars == <<poolVars, beyondPool>>

---------------------------------------------------------------------------
(***************************************************************************)
(* Array helpers with JavaScript's meaning.                                *)
(***************************************************************************)

\* Array.prototype.indexOf: 0-based index of the first element equal to x, or -1
IndexOf(arr, x) ==
  IF \E i \in 1..Len(arr) : arr[i] = x
    THEN (CHOOSE i \in 1..Len(arr) :
            arr[i] = x /\ \A j \in 1..(i - 1) : arr[j] # x) - 1
    ELSE -1

\* Array.prototype.splice(index, 1): the array without the element at 0-based index
Splice(arr, index) ==
  [i \in 1..(Len(arr) - 1) |-> IF i <= index THEN arr[i] ELSE arr[i + 1]]

\* clearTimeout: the pending timers without the one of x
Without(arr, x) == SelectSeq(arr, LAMBDA e : e # x)

\* the set of the elements of an array
Elems(arr) == {arr[i] : i \in 1..Len(arr)}

---------------------------------------------------------------------------
(***************************************************************************)
(* The two function objects of one _waitForConnection() call: the          *)
(* promise's own resolve function, and the arrow function pushed on the    *)
(* queue, which wraps it.  They are different objects.                     *)
(***************************************************************************)
ResolveFn(t) == [fn |-> "resolve", ticket |-> t]

WrapperFn(t) == [fn |-> "wrapper", ticket |-> t]

\* getStats().total
Total == Len(availableConnections) + Cardinality(activeConnections)

\* new OdooClient(...): the next client object
NextClient(cl) == Cardinality({c \in Conns : cl[c] # "absent"}) + 1

\* The record of an operation.  init: the connections its initialize() still
\* awaits; via: the path by which acquire() gave it its connection, and, once
\* the operation has ended, "unknown" if its release() was warned about as
\* the release of an unknown connection; total: getStats().total when it
\* called acquire().
Caller(pc, c, t, pending, via, total) ==
  [pc |-> pc, conn |-> c, ticket |-> t, init |-> pending, via |-> via, total |-> total]

\* an operation that has not started
IdleCaller == Caller("idle", NoConn, NoTicket, {}, "none", 0)

\* an operation that ended with the given outcome: "returned" or "threw" from
\* fn, or the error that rejected its connect() or its acquire()
Ended(outcome) == Caller(outcome, NoConn, NoTicket, {}, "none", 0)

\* this.uid = null
NoUid == 0

\* no error: lastError before the first failure, originalError = null
NoError == [name |-> "none"]

\* an OdooClient as its constructor leaves it
FreshClient == [connected |-> FALSE, uid |-> NoUid]

\* The record of a connect() call.  pc: "idle" before the first call, then
\* "attempting" (odoo.connect is awaited), "sleeping" (_sleep is awaited),
\* "resolved" or "rejected"; attempt: the attempts made by this call; slept:
\* the delays it slept, in order; lastError: the error of its last failed
\* attempt; result: the uid _authenticateWithRetry returned; error: what the
\* call threw; calls: the calls made so far; previous: how the call before
\* this one ended.
ConnectCall(pc, attempt, slept, lastError, result, error, calls, previous) ==
  [pc |-> pc, attempt |-> attempt, slept |-> slept, lastError |-> lastError,
   result |-> result, error |-> error, calls |-> calls, previous |-> previous]

NoCall == ConnectCall("idle", 0, <<>>, NoError, NoUid, NoError, 0, "none")

\* The record of an execute_kw() call.  pc: "idle" before the first call, then
\* "connecting" (connect() is awaited), "calling" (odoo.execute_kw was called
\* and its answer is awaited), "returned" or "threw"; error: what the call
\* threw; calls: the calls made so far.
ExecuteCall(pc, error, calls) == [pc |-> pc, error |-> error, calls |-> calls]

NoExecute == ExecuteCall("idle", NoError, 0)

\* no id, no page, no limit: an argument the method does not have
NoArg == 0

\* The record of a call of a service method.  op: the method; id, page,
\* limit: its arguments; pc: "idle" before the first call, then "listing"
\* (getAll awaits findAll and count), "finding" (getById awaits findById),
\* "checking" (update or delete awaits the getById that checks existence),
\* "mutating" (repository.update or repository.delete is awaited),
\* "refetching" (update awaits its last getById), "returned" or "threw";
\* log: the calls made to the repository, in order, with their answers;
\* error: the name of what the call threw.
ServiceCallRecord(op, id, page, limit, pc, log, error) ==
  [op |-> op, id |-> id, page |-> page, limit |-> limit, pc |-> pc, log |-> log,
   error |-> error]

NoServiceCall == ServiceCallRecord("none", NoArg, NoArg, NoArg, "idle", <<>>, "none")

\* config.retry when the environment sets nothing (odoo.config.js)
DefaultRetry == [maxAttempts |-> 3, delayMs |-> 1000, backoffMultiplier |-> 2]

\* the pool the application constructs when it starts, before it is used
Init ==
  /\ \E cfg \in Configs : minConnections = cfg.min /\ maxConnections = cfg.max
  /\ availableConnections = <<>>
  /\ activeConnections = {}
  /\ connectionQueue = <<>>
  /\ stats = [created |-> 0, acquired |-> 0, released |-> 0, destroyed |-> 0,
              queuedRequests |-> 0]
  /\ clients = [c \in Conns |-> "absent"]
  /\ tickets = <<>>
  /\ waitTimers = <<>>
  /\ idleTimers = <<>>
  /\ callers = [k \in Callers |-> IdleCaller]
  /\ destroyCalls = 0
  /\ instance = 1
  /\ pools = 1
  /\ returned = <<>>
  /\ retry = DefaultRetry
  /\ client = FreshClient
  /\ connectCall = NoCall
  /\ executeCall = NoExecute
  /\ service = NoServiceCall

---------------------------------------------------------------------------
(***************************************************************************)
(* _createConnection(), once connection.connect() has resolved: the new    *)
(* connection is pushed on the available array.                            *)
(***************************************************************************)
CreateConnection(available, c) == Append(available, c)

(***************************************************************************)
(* _setIdleTimeout(connection): a timer is set only if, at the time of the *)
(* release, the available array is longer than minConnections.             *)
(***************************************************************************)
SetIdleTimeout(timers, available, c) ==
  IF Len(available) > minConnections THEN Append(timers, c) ELSE timers

\* a mutation of SettledTickets: a settled promise is settled again
SettledAgain(tks, t, how) == [tks EXCEPT ![t].state = how]

(***************************************************************************)
(* The callback _waitForConnection pushes on the queue, called with a      *)
(* connection (release) or with null (destroy): clearTimeout, then resolve *)
(* or reject the ticket's promise.  Settling a settled promise does        *)
(* nothing.                                                                *)
(***************************************************************************)
SettledTickets(tks, t, how) ==
  IF tks[t].state = "pending" THEN [tks EXCEPT ![t].state = how] ELSE tks

WrapperCall(cs, tks, t, c) ==
  IF tks[t].state # "pending" THEN cs
  ELSE IF c # NoConn
    THEN [cs EXCEPT ![tks[t].owner] =
            Caller("holding", c, NoTicket, {}, "handoff", cs[tks[t].owner].total)]
    ELSE [cs EXCEPT ![tks[t].owner] = Ended("poolClosing")]

\* a mutation of ShiftIndex: pop() instead of shift()
ShiftIndexLast(queue) == Len(queue)

\* the position of the entry connectionQueue.shift() removes and returns
ShiftIndex(queue) == 1

\* a mutation of CountAcquired: queuedRequests is counted on every call too
CountAcquiredAndQueued(st) == [st EXCEPT !.acquired = @ + 1, !.queuedRequests = @ + 1]

\* this.stats.acquired++, the first statement of acquire()
CountAcquired(st) == [st EXCEPT !.acquired = @ + 1]

\* this.stats.queuedRequests++, on path (c) of acquire()
CountQueued(st) == [st EXCEPT !.queuedRequests = @ + 1]

---------------------------------------------------------------------------
(***************************************************************************)
(* acquire() called by operation k, up to its return or its first await,   *)
(* when the available array is av, the statistics are st and the clients   *)
(* are cl.                                                                 *)
(***************************************************************************)
Acquire(k, av, st, cl) ==
  IF Len(av) > 0 THEN
    \* path (a): an available connection is shifted off the array
    /\ availableConnections' = Tail(av)
    /\ activeConnections' = activeConnections \cup {Head(av)}
    /\ callers' = [callers EXCEPT ![k] =
         Caller("holding", Head(av), NoTicket, {}, "reuse",
                Len(av) + Cardinality(activeConnections))]
    /\ stats' = CountAcquired(st)
    /\ clients' = cl
    /\ UNCHANGED <<connectionQueue, tickets, waitTimers>>
  ELSE IF Cardinality(activeConnections) < maxConnections THEN
    \* path (b): _createConnection() constructs a client and awaits connect()
    /\ availableConnections' = av
    /\ clients' = [cl EXCEPT ![NextClient(cl)] = "connecting"]
    /\ callers' = [callers EXCEPT ![k] =
         Caller("creating", NextClient(cl), NoTicket, {}, "create",
                Len(av) + Cardinality(activeConnections))]
    /\ stats' = CountAcquired(st)
    /\ UNCHANGED <<activeConnections, connectionQueue, tickets, waitTimers>>
  ELSE
    \* path (c): _waitForConnection() sets a timer and queues a callback
    LET t == Len(tickets) + 1 IN
      /\ availableConnections' = av
      /\ clients' = cl
      /\ tickets' = Append(tickets, [owner |-> k, state |-> "pending",
                                     queueSize |-> Len(connectionQueue) + 1])
      /\ waitTimers' = Append(waitTimers, t)
      /\ connectionQueue' = Append(connectionQueue, WrapperFn(t))
      /\ callers' = [callers EXCEPT ![k] =
           Caller("waiting", NoConn, t, {}, "none",
                  Len(av) + Cardinality(activeConnections))]
      /\ stats' = CountQueued(CountAcquired(st))
      /\ UNCHANGED activeConnections

(***************************************************************************)
(* A repository operation starts (operations are numbered in the order in  *)
(* which they start): await pool.connect(), then a verb of the             *)
(* pool.  connect() calls initialize() if the pool tracks no connection:   *)
(* minConnections _createConnection() calls are started and awaited.       *)
(* Otherwise connect() returns and the verb calls acquire() at once.       *)
(***************************************************************************)
Request(k) ==
  /\ callers[k].pc = "idle"
  /\ \A j \in 1..(k - 1) : callers[j].pc # "idle"
  /\ IF Len(availableConnections) = 0 /\ Cardinality(activeConnections) = 0
       THEN LET first == NextClient(clients)
                new == first..(first + minConnections - 1)
            IN /\ clients' = [c \in Conns |->
                                IF c \in new THEN "connecting" ELSE clients[c]]
               /\ callers' = [callers EXCEPT ![k] =
                                Caller("initializing", NoConn, NoTicket, new, "none", 0)]
               /\ UNCHANGED <<availableConnections, activeConnections,
                              connectionQueue, stats, tickets, waitTimers>>
       ELSE Acquire(k, availableConnections, stats, clients)
  /\ UNCHANGED <<minConnections, maxConnections, beyondPool, idleTimers, destroyCalls>>

\* the connections initialize() calls are creating
InitCreating ==
  {c \in Conns : /\ clients[c] = "connecting"
                 /\ \A k \in Callers : callers[k].pc = "creating" => callers[k].conn # c}

(***************************************************************************)
(* One _createConnection() of an initialize(): connect() resolved.  When   *)
(* it was the last one the Promise.all of an operation waited for,         *)
(* connect() returns to the operation, which calls acquire().              *)
(***************************************************************************)
InitCreated(c) ==
  /\ c \in InitCreating
  /\ LET cl == [clients EXCEPT ![c] = "connected"]
         st == [stats EXCEPT !.created = @ + 1]
         av == CreateConnection(availableConnections, c)
     IN IF \E k \in Callers : callers[k].init = {c}
          THEN Acquire(CHOOSE k \in Callers : callers[k].init = {c}, av, st, cl)
          ELSE /\ availableConnections' = av
               /\ stats' = st
               /\ clients' = cl
               /\ callers' = [k \in Callers |->
                                [callers[k] EXCEPT !.init = @ \ {c}]]
               /\ UNCHANGED <<activeConnections, connectionQueue, tickets, waitTimers>>
  /\ UNCHANGED <<minConnections, maxConnections, beyondPool, idleTimers, destroyCalls>>

(***************************************************************************)
(* One _createConnection() of an initialize(): connect() rejected, so      *)
(* Promise.all rejects and the operation fails; the other creations of the *)
(* same initialize() go on.                                                *)
(***************************************************************************)
InitCreateFailed(c) ==
  /\ c \in InitCreating
  /\ clients' = [clients EXCEPT ![c] = "failed"]
  /\ callers' = [k \in Callers |->
                   IF c \in callers[k].init THEN Ended("connectFailed")
                                            ELSE callers[k]]
  /\ UNCHANGED <<availableConnections, activeConnections, connectionQueue, stats,
                 tickets, waitTimers, idleTimers, destroyCalls,
                 minConnections, maxConnections, beyondPool>>

(***************************************************************************)
(* acquire() path (b) resumed: connect() resolved, so _createConnection()  *)
(* finishes and acquire() adds the connection to the active set.           *)
(***************************************************************************)
AcquireCreated(k) ==
  /\ callers[k].pc = "creating"
  /\ LET connection == callers[k].conn IN
       /\ clients' = [clients EXCEPT ![connection] = "connected"]
       /\ stats' = [stats EXCEPT !.created = @ + 1]
       /\ availableConnections' = CreateConnection(availableConnections, connection)
       /\ activeConnections' = activeConnections \cup {connection}
       /\ callers' = [callers EXCEPT ![k].pc = "holding"]
  /\ UNCHANGED <<connectionQueue, tickets, waitTimers, idleTimers, destroyCalls,
                 minConnections, maxConnections, beyondPool>>

\* a mutation of AcquireCreateFailed: the failed creation is counted as created
AcquireCreateFailedCounted(k) ==
  /\ callers[k].pc = "creating"
  /\ clients' = [clients EXCEPT ![callers[k].conn] = "failed"]
  /\ callers' = [callers EXCEPT ![k] = Ended("connectFailed")]
  /\ stats' = [stats EXCEPT !.created = @ + 1]
  /\ UNCHANGED <<availableConnections, activeConnections, connectionQueue,
                 tickets, waitTimers, idleTimers, destroyCalls,
                 minConnections, maxConnections, beyondPool>>

(***************************************************************************)
(* acquire() path (b) resumed: connect() rejected, so _createConnection()  *)
(* throws 'Failed to create connection' and acquire() rejects with it.     *)
(***************************************************************************)
AcquireCreateFailed(k) ==
  /\ callers[k].pc = "creating"
  /\ clients' = [clients EXCEPT ![callers[k].conn] = "failed"]
  /\ callers' = [callers EXCEPT ![k] = Ended("connectFailed")]
  /\ UNCHANGED <<availableConnections, activeConnections, connectionQueue, stats,
                 tickets, waitTimers, idleTimers, destroyCalls,
                 minConnections, maxConnections, beyondPool>>

---------------------------------------------------------------------------
\* a mutation of ReleaseToQueue: the connection is also pushed on available
ReleaseToQueueAndAvailable(k, connection, after) ==
  LET t == connectionQueue[ShiftIndex(connectionQueue)].ticket IN
    /\ connectionQueue' = Splice(connectionQueue, ShiftIndex(connectionQueue) - 1)
    /\ activeConnections' = activeConnections
    /\ waitTimers' = Without(waitTimers, t)
    /\ tickets' = SettledTickets(tickets, t, "resolved")
    /\ callers' = WrapperCall([callers EXCEPT ![k] = after], tickets, t, connection)
    /\ availableConnections' = Append(availableConnections, connection)
    /\ UNCHANGED idleTimers

(***************************************************************************)
(* release(connection), queue not empty: the oldest callback is shifted    *)
(* off the queue, the connection is put back into the active set and the   *)
(* callback is called with it.                                             *)
(***************************************************************************)
ReleaseToQueue(k, connection, after) ==
  LET t == connectionQueue[ShiftIndex(connectionQueue)].ticket IN
    /\ connectionQueue' = Splice(connectionQueue, ShiftIndex(connectionQueue) - 1)
    /\ activeConnections' = (activeConnections \ {connection}) \cup {connection}
    /\ waitTimers' = Without(waitTimers, t)
    /\ tickets' = SettledTickets(tickets, t, "resolved")
    /\ callers' = WrapperCall([callers EXCEPT ![k] = after], tickets, t, connection)
    /\ UNCHANGED <<availableConnections, idleTimers>>

(***************************************************************************)
(* release(connection), queue empty: the connection goes back to the       *)
(* available array and _setIdleTimeout(connection) is called.              *)
(***************************************************************************)
ReleaseToAvailable(k, connection, after) ==
  /\ activeConnections' = activeConnections \ {connection}
  /\ availableConnections' = Append(availableConnections, connection)
  /\ idleTimers' = SetIdleTimeout(idleTimers, availableConnections', connection)
  /\ callers' = [callers EXCEPT ![k] = after]
  /\ UNCHANGED <<connectionQueue, tickets, waitTimers>>

\* a mutation of Release: no test whether the connection is in the active set
ReleaseUnchecked(k, connection, after) ==
  /\ stats' = [stats EXCEPT !.released = @ + 1]
  /\ IF Len(connectionQueue) > 0
       THEN ReleaseToQueue(k, connection, after)
       ELSE ReleaseToAvailable(k, connection, after)
  /\ UNCHANGED <<clients, destroyCalls, minConnections, maxConnections, beyondPool>>

(***************************************************************************)
(* release(connection) as called by operation k, left in state after.      *)
(***************************************************************************)
Release(k, connection, after) ==
  /\ stats' = [stats EXCEPT !.released = @ + 1]
  /\ IF connection \notin activeConnections THEN
       \* 'Attempted to release unknown connection'
       /\ callers' = [callers EXCEPT ![k] = [after EXCEPT !.via = "unknown"]]
       /\ UNCHANGED <<availableConnections, activeConnections, connectionQueue,
                      tickets, waitTimers, idleTimers>>
     ELSE IF Len(connectionQueue) > 0
       THEN ReleaseToQueue(k, connection, after)
       ELSE ReleaseToAvailable(k, connection, after)
  /\ UNCHANGED <<clients, destroyCalls, minConnections, maxConnections, beyondPool>>

\* a mutation of WithConnectionSettled: the release is skipped when fn throws
WithConnectionNoFinally(k, outcome) ==
  /\ callers[k].pc = "holding"
  /\ IF outcome = "returned"
       THEN Release(k, callers[k].conn, Ended(outcome))
       ELSE /\ callers' = [callers EXCEPT ![k] =
                             Ended(outcome)]
            /\ UNCHANGED <<availableConnections, activeConnections, connectionQueue,
                           stats, tickets, waitTimers, idleTimers, clients,
                           destroyCalls, minConnections, maxConnections, beyondPool>>

(***************************************************************************)
(* withConnection(fn) resumed when fn(connection) settles: the finally     *)
(* block releases the connection, then the value or the error goes on to   *)
(* the operation.                                                          *)
(***************************************************************************)
WithConnectionSettled(k, outcome) ==
  /\ callers[k].pc = "holding"
  /\ Release(k, callers[k].conn, Ended(outcome))

(***************************************************************************)
(* The timer of a _waitForConnection() fires (timers of one delay fire in  *)
(* the order they were set): the promise's resolve function is looked up   *)
(* in the queue, spliced out if found, and the promise is rejected.        *)
(***************************************************************************)
WaitTimeout ==
  /\ waitTimers # <<>>
  /\ LET t == Head(waitTimers)
         index == IndexOf(connectionQueue, ResolveFn(t))
     IN /\ waitTimers' = Tail(waitTimers)
        /\ connectionQueue' = IF index > -1 THEN Splice(connectionQueue, index)
                                            ELSE connectionQueue
        /\ tickets' = SettledTickets(tickets, t, "rejected")
        /\ callers' = IF tickets[t].state = "pending"
                        THEN [callers EXCEPT ![tickets[t].owner] = Ended("timeout")]
                        ELSE callers
  /\ UNCHANGED <<availableConnections, activeConnections, stats, clients,
                 idleTimers, destroyCalls, minConnections, maxConnections, beyondPool>>

\* OdooClient.disconnect() on every client of a set
Disconnect(cl, cs) ==
  [c \in Conns |-> IF c \in cs /\ cl[c] = "connected" THEN "disconnected" ELSE cl[c]]

(***************************************************************************)
(* The timer of a _setIdleTimeout() fires: if the connection is in the     *)
(* available array it is spliced out and disconnected.                     *)
(***************************************************************************)
IdleTimeout ==
  /\ idleTimers # <<>>
  /\ LET connection == Head(idleTimers)
         index == IndexOf(availableConnections, connection)
     IN /\ idleTimers' = Tail(idleTimers)
        /\ IF index > -1
             THEN /\ availableConnections' = Splice(availableConnections, index)
                  /\ clients' = Disconnect(clients, {connection})
                  /\ stats' = [stats EXCEPT !.destroyed = @ + 1]
             ELSE UNCHANGED <<availableConnections, clients, stats>>
  /\ UNCHANGED <<activeConnections, connectionQueue, tickets, waitTimers,
                 callers, destroyCalls, minConnections, maxConnections, beyondPool>>

\* every queued callback called with null, oldest first
RECURSIVE RejectAll(_, _, _)
RejectAll(queue, cs, tks) ==
  IF queue = <<>> THEN [callers |-> cs, tickets |-> tks]
  ELSE LET t == Head(queue).ticket IN
         RejectAll(Tail(queue), WrapperCall(cs, tks, t, NoConn),
                   SettledTickets(tks, t, "rejected"))

\* a mutation of Clear: the Set is left as it is
ClearNothing(set) == set

\* Set.prototype.clear
Clear(set) == {}

\* a mutation of AllConnections: the connections that are checked out are left out
AllConnectionsAvailableOnly(available, active) == available

\* destroy()'s allConnections: the available array followed by the active set
\* (a Set is spread in insertion order, here in the order of the client numbers)
AllConnections(available, active) ==
  LET RECURSIVE Spread(_)
      Spread(set) ==
        IF set = {} THEN <<>>
        ELSE LET c == CHOOSE x \in set : \A y \in set : x <= y
             IN <<c>> \o Spread(set \ {c})
  IN available \o Spread(active)

(***************************************************************************)
(* A mutation of DestroyWith: no try/catch around disconnect(), so that a  *)
(* rejected disconnect() rejects the Promise.all and destroy() ends before *)
(* it empties the collections.                                             *)
(***************************************************************************)
DestroyWithUncaught(failing) ==
  /\ UNCHANGED beyondPool
  /\ destroyCalls < MaxDestroyCalls
  /\ destroyCalls' = destroyCalls + 1
  /\ LET r == RejectAll(connectionQueue, callers, tickets) IN
       /\ callers' = r.callers
       /\ tickets' = r.tickets
  /\ waitTimers' = SelectSeq(waitTimers,
                     LAMBDA t : WrapperFn(t) \notin Elems(connectionQueue))
  /\ connectionQueue' = <<>>
  /\ LET allConnections == AllConnections(availableConnections, activeConnections) IN
       /\ clients' = Disconnect(clients, Elems(allConnections) \ failing)
       /\ stats' = [stats EXCEPT !.destroyed =
                      @ + Len(SelectSeq(allConnections, LAMBDA c : c \notin failing))]
       /\ IF Elems(allConnections) \cap failing = {}
            THEN /\ availableConnections' = <<>>
                 /\ activeConnections' = Clear(activeConnections)
            ELSE UNCHANGED <<availableConnections, activeConnections>>
  /\ UNCHANGED <<idleTimers, minConnections, maxConnections>>

(***************************************************************************)
(* destroy(), when disconnect() rejects for the connections of the set     *)
(* failing: the queue is rejected and cleared, disconnect() is called on   *)
(* every entry of allConnections, each one that resolves is counted and    *)
(* each one that rejects is logged, then the collections are emptied.      *)
(* disconnect() awaits nothing, so no timer or network event is served in  *)
(* between.                                                                *)
(***************************************************************************)
DestroyPool(failing) ==
  /\ destroyCalls < MaxDestroyCalls
  /\ destroyCalls' = destroyCalls + 1
  /\ LET r == RejectAll(connectionQueue, callers, tickets) IN
       /\ callers' = r.callers
       /\ tickets' = r.tickets
  /\ waitTimers' = SelectSeq(waitTimers,
                     LAMBDA t : WrapperFn(t) \notin Elems(connectionQueue))
  /\ connectionQueue' = <<>>
  /\ LET allConnections == AllConnections(availableConnections, activeConnections) IN
       /\ clients' = Disconnect(clients, Elems(allConnections) \ failing)
       /\ stats' = [stats EXCEPT !.destroyed =
                      @ + Len(SelectSeq(allConnections, LAMBDA c : c \notin failing))]
  /\ availableConnections' = <<>>
  /\ activeConnections' = Clear(activeConnections)
  /\ UNCHANGED <<idleTimers, minConnections, maxConnections>>

\* destroy() called on the pool, as the application does when it shuts down
DestroyWith(failing) ==
  /\ DestroyPool(failing)
  /\ UNCHANGED beyondPool

\* destroy() with the session client of this repository: OdooClient.disconnect()
\* only assigns fields and never rejects
Destroy == DestroyWith({})

Next ==
  \/ \E k \in Callers : Request(k)
  \/ \E c \in Conns : InitCreated(c)
  \/ \E c \in Conns : InitCreateFailed(c)
  \/ \E k \in Callers : AcquireCreated(k)
  \/ \E k \in Callers : AcquireCreateFailed(k)
  \/ \E k \in Callers, outcome \in {"returned", "threw"} : WithConnectionSettled(k, outcome)
  \/ WaitTimeout
  \/ IdleTimeout
  \/ Destroy

Spec == Init /\ [][Next]_vars

(***************************************************************************)
(* The pool when timers fire: a timer set by _waitForConnection() that is  *)
(* not cleared fires in the end.  The operations are those whose fn        *)
(* returns: withConnection releases in a finally block, so that the pool   *)
(* is left the same by an fn that throws.                                  *)
(***************************************************************************)
NextTimersFire ==
  \/ \E k \in Callers : Request(k)
  \/ \E c \in Conns : InitCreated(c)
  \/ \E c \in Conns : InitCreateFailed(c)
  \/ \E k \in Callers : AcquireCreated(k)
  \/ \E k \in Callers : AcquireCreateFailed(k)
  \/ \E k \in Callers : WithConnectionSettled(k, "returned")
  \/ WaitTimeout
  \/ IdleTimeout
  \/ Destroy

SpecTimersFire == Init /\ [][NextTimersFire]_vars /\ WF_vars(WaitTimeout)

(***************************************************************************)
(* The pool with a session client whose disconnect() may reject: the       *)
(* operations of the pool as above, and a destroy() during which           *)
(* disconnect() rejects for one of the connected tracked connections or    *)
(* for all of them.  A run is followed up to the first such destroy(): the *)
(* pool never touches the connections it has dropped, so what comes after  *)
(* it is what comes after a destroy() without failure.                     *)
(***************************************************************************)
DestroyDisconnectFails ==
  LET connected == {c \in Elems(availableConnections) \cup activeConnections :
                      clients[c] = "connected"}
  IN \E failing \in SUBSET connected :
       /\ failing # {}
       /\ Cardinality(failing) = 1 \/ failing = connected
       /\ DestroyWith(failing)

\* no disconnect() has rejected: every connected client is tracked
NoDisconnectFailed ==
  \A c \in Conns :
    clients[c] = "connected" => c \in Elems(availableConnections) \cup activeConnections

NextDisconnectFails ==
  \/ NoDisconnectFailed /\ Next
  \/ NoDisconnectFailed /\ DestroyDisconnectFails

SpecDisconnectFails == Init /\ [][NextDisconnectFails]_vars

---------------------------------------------------------------------------
(***************************************************************************)
(* The singleton accessor.  The process starts with no instance;           *)
(* getInstance(config, logger) and resetInstance() are called in any       *)
(* order.                                                                  *)
(***************************************************************************)

\* number of getInstance() calls in a run
MaxGetInstanceCalls == 3

\* getInstance() called without a configuration: config = null
NoConfig == [min |-> 0, max |-> 0]

\* what a getInstance() call that was given config gave: it threw, or it
\* returned pool object pool, whose fields were min and max
Returned(config, pool, min, max) ==
  [config |-> config, result |-> IF pool = NoInstance THEN "threw" ELSE "returned",
   pool |-> pool, min |-> min, max |-> max]

InitSingleton ==
  /\ minConnections = 0
  /\ maxConnections = 0
  /\ availableConnections = <<>>
  /\ activeConnections = {}
  /\ connectionQueue = <<>>
  /\ stats = [created |-> 0, acquired |-> 0, released |-> 0, destroyed |-> 0,
              queuedRequests |-> 0]
  /\ clients = [c \in Conns |-> "absent"]
  /\ tickets = <<>>
  /\ waitTimers = <<>>
  /\ idleTimers = <<>>
  /\ callers = [k \in Callers |-> IdleCaller]
  /\ destroyCalls = 0
  /\ instance = NoInstance
  /\ pools = 0
  /\ returned = <<>>
  /\ retry = DefaultRetry
  /\ client = FreshClient
  /\ connectCall = NoCall
  /\ executeCall = NoExecute
  /\ service = NoServiceCall

\* new OdooConnectionPool(config, logger); the configurations of the model
\* give min and max, so that the defaults (|| 2, || 10) are not taken
Construct(config) ==
  /\ minConnections' = config.min
  /\ maxConnections' = config.max
  /\ availableConnections' = <<>>
  /\ activeConnections' = {}
  /\ connectionQueue' = <<>>
  /\ stats' = [created |-> 0, acquired |-> 0, released |-> 0, destroyed |-> 0,
               queuedRequests |-> 0]
  /\ pools' = pools + 1

\* a mutation of GetInstance: a call with a configuration replaces the instance
GetInstanceReplaces(config) ==
  /\ Len(returned) < MaxGetInstanceCalls
  /\ IF config # NoConfig
       THEN /\ Construct(config)
            /\ instance' = pools'
       ELSE UNCHANGED <<minConnections, maxConnections, availableConnections,
                        activeConnections, connectionQueue, stats, pools, instance>>
  /\ returned' = Append(returned,
                        Returned(config, instance', minConnections', maxConnections'))
  /\ UNCHANGED <<clients, tickets, waitTimers, idleTimers, callers, destroyCalls,
                 sessionVars, serviceVars>>

(***************************************************************************)
(* getInstance(config): with no instance, it throws if config is null and  *)
(* constructs the instance otherwise; then it returns the instance.        *)
(***************************************************************************)
GetInstance(config) ==
  /\ Len(returned) < MaxGetInstanceCalls
  /\ IF instance = NoInstance /\ config # NoConfig
       THEN /\ Construct(config)
            /\ instance' = pools'
       ELSE UNCHANGED <<minConnections, maxConnections, availableConnections,
                        activeConnections, connectionQueue, stats, pools, instance>>
  /\ returned' = Append(returned,
                        Returned(config, instance', minConnections', maxConnections'))
  /\ UNCHANGED <<clients, tickets, waitTimers, idleTimers, callers, destroyCalls,
                 sessionVars, serviceVars>>

(***************************************************************************)
(* resetInstance() with an instance: destroy() is called on it, not        *)
(* awaited, and the static field is set to null.  Without an instance it   *)
(* does nothing.                                                           *)
(***************************************************************************)
ResetInstance ==
  /\ instance # NoInstance
  /\ DestroyPool({})
  /\ instance' = NoInstance
  /\ UNCHANGED <<pools, returned, sessionVars, serviceVars>>

NextSingleton ==
  \/ \E config \in Configs \cup {NoConfig} : GetInstance(config)
  \/ ResetInstance

SpecSingleton == InitSingleton /\ [][NextSingleton]_vars

---------------------------------------------------------------------------
(***************************************************************************)
(* One session client (OdooClient.js): connect(), which authenticates with *)
(* retries, execute_kw(), which calls connect() first, and disconnect().   *)
(* A call is made when the one before it has settled.  The xmlrpc library  *)
(* answers each authentication attempt with an error or with a user id.    *)
(***************************************************************************)

\* the largest config.retry.maxAttempts of the model
MaxAttemptsBound == 3

\* number of connect() calls on the client in a run
MaxConnectCalls == 2

\* the values of config.retry
Retries ==
  {[maxAttempts |-> m, delayMs |-> d, backoffMultiplier |-> b] :
     m \in 1..MaxAttemptsBound, d \in {100, 1000}, b \in {1, 2, 3}}

\* the user ids and the errors the library answers with
Uids == {7, 8}

Errors == {[name |-> "Error", message |-> m] : m \in {"refused", "denied"}}

\* new OdooConnectionError(message, originalError)
OdooConnectionError(message, originalError) ==
  [name |-> "OdooConnectionError", message |-> message, originalError |-> originalError]

\* Math.pow(base, exponent) for an exponent >= 0
RECURSIVE Pow(_, _)
Pow(base, exponent) ==
  IF exponent = 0 THEN 1 ELSE base * Pow(base, exponent - 1)

\* a mutation of Delay: the exponent is the attempt number
DelayFromAttempt(attempt) == retry.delayMs * Pow(retry.backoffMultiplier, attempt)

\* the delay slept after the failure of an attempt
Delay(attempt) == retry.delayMs * Pow(retry.backoffMultiplier, attempt - 1)

\* the test made after a failed attempt: is there a sleep
SleepsAfter(attempt) == attempt < retry.maxAttempts

\* a mutation of LoopGoesOn: < instead of <=
LoopStopsEarly(attempt) == attempt < retry.maxAttempts

\* the test of the for loop: is attempt number attempt made
LoopGoesOn(attempt) == attempt <= retry.maxAttempts

\* number of execute_kw() calls on the client in a run
MaxExecuteCalls == 2

\* a mutation of ExecuteError: the error of the library is thrown as it is
ExecuteErrorRaw(error) == error

\* the error execute_kw() throws when the remote call fails
ExecuteError(error) == OdooConnectionError("Failed to execute", error)

(***************************************************************************)
(* An execute_kw() call whose record is exec, when the connect() call it   *)
(* awaits, if it awaits one, has become call: once connect() has returned  *)
(* the remote call is issued, and an error thrown by connect() is thrown   *)
(* on by execute_kw() as it is.                                            *)
(***************************************************************************)
ExecuteResumed(exec, call) ==
  IF exec.pc # "connecting" THEN exec
  ELSE IF call.pc = "resolved" THEN [exec EXCEPT !.pc = "calling"]
  ELSE IF call.pc = "rejected" THEN [exec EXCEPT !.pc = "threw", !.error = call.error]
  ELSE exec

\* isConnected(), and the test connect() makes before it does anything
IsConnected(cl) == cl.connected /\ cl.uid # NoUid

InitClient ==
  /\ \E cfg \in Configs : minConnections = cfg.min /\ maxConnections = cfg.max
  /\ availableConnections = <<>>
  /\ activeConnections = {}
  /\ connectionQueue = <<>>
  /\ stats = [created |-> 0, acquired |-> 0, released |-> 0, destroyed |-> 0,
              queuedRequests |-> 0]
  /\ clients = [c \in Conns |-> "absent"]
  /\ tickets = <<>>
  /\ waitTimers = <<>>
  /\ idleTimers = <<>>
  /\ callers = [k \in Callers |-> IdleCaller]
  /\ destroyCalls = 0
  /\ instance = 1
  /\ pools = 1
  /\ returned = <<>>
  /\ retry \in Retries
  /\ client = FreshClient
  /\ connectCall = NoCall
  /\ executeCall = NoExecute
  /\ service = NoServiceCall

(***************************************************************************)
(* The for loop of _authenticateWithRetry reaches its test with the given  *)
(* attempt number, in the call whose record so far is call: the attempt is *)
(* started, or the loop ends and the error thrown after it is caught and   *)
(* wrapped by connect().                                                   *)
(***************************************************************************)
LoopTest(call, attempt) ==
  IF LoopGoesOn(attempt)
    THEN [call EXCEPT !.pc = "attempting", !.attempt = attempt]
    ELSE [call EXCEPT
            !.pc = "rejected",
            !.error = OdooConnectionError("Failed to connect to Odoo",
                        OdooConnectionError("Failed to authenticate", call.lastError))]

(***************************************************************************)
(* connect() is called, by itself or as the first statement of             *)
(* execute_kw(): it returns at once if the client is connected, and starts *)
(* _authenticateWithRetry() otherwise.                                     *)
(***************************************************************************)
ClientConnect ==
  /\ connectCall.pc \in {"idle", "resolved", "rejected"}
  /\ executeCall.pc \in {"idle", "returned", "threw"}
  /\ connectCall.calls < MaxConnectCalls
  /\ LET call == ConnectCall("idle", 0, <<>>, NoError, NoUid, NoError,
                             connectCall.calls + 1, connectCall.pc)
     IN connectCall' = IF IsConnected(client)
                         THEN [call EXCEPT !.pc = "resolved"]
                         ELSE LoopTest(call, 1)
  /\ UNCHANGED <<retry, client, executeCall, poolVars, singletonVars, serviceVars>>

(***************************************************************************)
(* The library answers the attempt with a user id: connect() stores it and *)
(* returns, and an execute_kw() that awaited it goes on.                   *)
(***************************************************************************)
AttemptSucceeds(uid) ==
  /\ connectCall.pc = "attempting"
  /\ connectCall' = [connectCall EXCEPT !.pc = "resolved", !.result = uid]
  /\ client' = [connected |-> TRUE, uid |-> uid]
  /\ executeCall' = ExecuteResumed(executeCall, connectCall')
  /\ UNCHANGED <<retry, poolVars, singletonVars, serviceVars>>

(***************************************************************************)
(* The library answers the attempt with an error: it is kept as lastError, *)
(* and either a sleep is started or the loop goes to its test.             *)
(***************************************************************************)
AttemptFails(error) ==
  /\ connectCall.pc = "attempting"
  /\ LET call == [connectCall EXCEPT !.lastError = error] IN
       connectCall' =
         IF SleepsAfter(call.attempt)
           THEN [call EXCEPT !.pc = "sleeping",
                             !.slept = Append(@, Delay(call.attempt))]
           ELSE LoopTest(call, call.attempt + 1)
  /\ executeCall' = ExecuteResumed(executeCall, connectCall')
  /\ UNCHANGED <<retry, client, poolVars, singletonVars, serviceVars>>

\* the timer of _sleep fires: the loop goes to its test
SleepEnds ==
  /\ connectCall.pc = "sleeping"
  /\ connectCall' = LoopTest(connectCall, connectCall.attempt + 1)
  /\ executeCall' = ExecuteResumed(executeCall, connectCall')
  /\ UNCHANGED <<retry, client, poolVars, singletonVars, serviceVars>>

\* disconnect(), called when no connect() is running; it may be called while
\* the answer to a remote call is awaited, as the pool does when it evicts or
\* destroys a connection that is checked out
ClientDisconnect ==
  /\ connectCall.pc \in {"idle", "resolved", "rejected"}
  /\ client.connected
  /\ client' = [connected |-> FALSE, uid |-> NoUid]
  /\ UNCHANGED <<retry, connectCall, executeCall, poolVars, singletonVars, serviceVars>>

(***************************************************************************)
(* execute_kw(model, method, params, kwargs) is called: it awaits          *)
(* connect(), outside its try block, and then calls odoo.execute_kw.       *)
(***************************************************************************)
ExecuteKw ==
  /\ connectCall.pc \in {"idle", "resolved", "rejected"}
  /\ executeCall.pc \in {"idle", "returned", "threw"}
  /\ executeCall.calls < MaxExecuteCalls
  /\ LET call == ConnectCall("idle", 0, <<>>, NoError, NoUid, NoError,
                             connectCall.calls + 1, connectCall.pc)
     IN connectCall' = IF IsConnected(client)
                         THEN [call EXCEPT !.pc = "resolved"]
                         ELSE LoopTest(call, 1)
  /\ executeCall' = ExecuteResumed(ExecuteCall("connecting", NoError,
                                                executeCall.calls + 1),
                                    connectCall')
  /\ UNCHANGED <<retry, client, poolVars, singletonVars, serviceVars>>

\* the library answers the remote call with a result: execute_kw() returns it
CallSucceeds ==
  /\ executeCall.pc = "calling"
  /\ executeCall' = [executeCall EXCEPT !.pc = "returned"]
  /\ UNCHANGED <<retry, client, connectCall, poolVars, singletonVars, serviceVars>>

\* the library answers the remote call with an error: the catch block wraps it
CallFails(error) ==
  /\ executeCall.pc = "calling"
  /\ executeCall' = [executeCall EXCEPT !.pc = "threw", !.error = ExecuteError(error)]
  /\ UNCHANGED <<retry, client, connectCall, poolVars, singletonVars, serviceVars>>

NextOdooClient ==
  \/ ClientConnect
  \/ \E uid \in Uids : AttemptSucceeds(uid)
  \/ \E error \in Errors : AttemptFails(error)
  \/ SleepEnds
  \/ ClientDisconnect
  \/ ExecuteKw
  \/ CallSucceeds
  \/ \E error \in Errors : CallFails(error)

SpecClient == InitClient /\ [][NextOdooClient]_vars

---------------------------------------------------------------------------
(***************************************************************************)
(* The service layer (BaseService): getAll, getById, update and delete,    *)
(* called one at a time on a service whose repository answers each call    *)
(* with a value or with an error, as it likes.                             *)
(***************************************************************************)

\* the ids of the model are -1..MaxId, the pages -1..MaxPage
MaxId == 2

MaxPage == 3

\* the largest limit _validatePagination accepts
MaxLimit == 100

Ids == -1..MaxId

Pages == -1..MaxPage

Limits == {-1, 0, 1, 2, MaxLimit - 1, MaxLimit, MaxLimit + 1}

\* a call to the repository, not answered yet
Invocation(fn, id, limit, offset) ==
  [fn |-> fn, id |-> id, limit |-> limit, offset |-> offset, answer |-> "pending"]

\* the log, its last call answered
Answered(log, answer) == [log EXCEPT ![Len(log)].answer = answer]

\* _validateId passes (the arguments of the model are integers)
ValidId(id) == id > 0

\* a mutation of ValidPagination: no upper limit
ValidPaginationNoMax(page, limit) == page >= 1 /\ limit >= 1

\* _validatePagination passes
ValidPagination(page, limit) == page >= 1 /\ limit >= 1 /\ limit <= MaxLimit

\* the offset getAll computes
Offset(page, limit) == (page - 1) * limit

\* a mutation of NotFound: the answer of findById is not looked at
NotFoundNever(answer) == FALSE

\* getById's test !record
NotFound(answer) == answer = "null"

\* the errors whose isOperational is true: AppError and its subclasses
Operational == {"ValidationError", "NotFoundError", "RepositoryError", "ServiceError"}

\* the catch block of every method: an operational error is thrown on, any
\* other error is wrapped in a ServiceError
Rethrown(error) == IF error \in Operational THEN error ELSE "ServiceError"

\* the errors a repository call rejects with: a RepositoryError, or any other
RepositoryFailures == {"RepositoryError", "Error"}

\* the call ends by throwing error
Throws(call, error) == [call EXCEPT !.pc = "threw", !.error = Rethrown(error)]

InitService ==
  /\ \E cfg \in Configs : minConnections = cfg.min /\ maxConnections = cfg.max
  /\ availableConnections = <<>>
  /\ activeConnections = {}
  /\ connectionQueue = <<>>
  /\ stats = [created |-> 0, acquired |-> 0, released |-> 0, destroyed |-> 0,
              queuedRequests |-> 0]
  /\ clients = [c \in Conns |-> "absent"]
  /\ tickets = <<>>
  /\ waitTimers = <<>>
  /\ idleTimers = <<>>
  /\ callers = [k \in Callers |-> IdleCaller]
  /\ destroyCalls = 0
  /\ instance = 1
  /\ pools = 1
  /\ returned = <<>>
  /\ retry = DefaultRetry
  /\ client = FreshClient
  /\ connectCall = NoCall
  /\ executeCall = NoExecute
  /\ service = NoServiceCall

(***************************************************************************)
(* getAll(page, limit) is called: _validatePagination, then findAll and    *)
(* count are called on the repository and awaited together.                *)
(***************************************************************************)
GetAll(page, limit) ==
  /\ service.pc \in {"idle", "returned", "threw"}
  /\ LET call == ServiceCallRecord("getAll", NoArg, page, limit, "listing", <<>>, "none")
     IN service' =
          IF ~ValidPagination(page, limit) THEN Throws(call, "ValidationError")
          ELSE [call EXCEPT !.log = <<Invocation("findAll", NoArg, limit,
                                                 Offset(page, limit)),
                                      Invocation("count", NoArg, NoArg, NoArg)>>]
  /\ UNCHANGED <<poolVars, singletonVars, sessionVars>>

\* the Promise.all of getAll settles: both calls resolved, or one rejected
GetAllAnswered(answer) ==
  /\ service.pc = "listing"
  /\ service' =
       IF answer = "value"
         THEN [service EXCEPT !.pc = "returned",
                              !.log = [i \in 1..Len(@) |-> [@[i] EXCEPT !.answer = "value"]]]
         ELSE Throws([service EXCEPT !.log = Answered(@, answer)], answer)
  /\ UNCHANGED <<poolVars, singletonVars, sessionVars>>

(***************************************************************************)
(* getById(id), called by itself (pc "finding") or as the first statement  *)
(* after _validateId of update(id, data) and delete(id) (pc "checking"):   *)
(* _validateId, then findById is called on the repository.                 *)
(***************************************************************************)
ById(op, id) ==
  /\ service.pc \in {"idle", "returned", "threw"}
  /\ LET call == ServiceCallRecord(op, id, NoArg, NoArg,
                                   IF op = "getById" THEN "finding" ELSE "checking",
                                   <<>>, "none")
     IN service' =
          IF ~ValidId(id) THEN Throws(call, "ValidationError")
          ELSE [call EXCEPT !.log = <<Invocation("findById", id, NoArg, NoArg)>>]
  /\ UNCHANGED <<poolVars, singletonVars, sessionVars>>

(***************************************************************************)
(* findById is answered, with a record, with null or with an error.  With  *)
(* null getById throws NotFoundError.  With a record getById returns; then *)
(* update validates the data (valid tells whether validateUpdate accepts   *)
(* them) and calls repository.update, and delete calls repository.delete.  *)
(***************************************************************************)
FindByIdAnswered(answer, valid) ==
  /\ service.pc \in {"finding", "checking", "refetching"}
  /\ LET call == [service EXCEPT !.log = Answered(@, answer)] IN
       service' =
         IF answer \in RepositoryFailures THEN Throws(call, answer)
         ELSE IF NotFound(answer) THEN Throws(call, "NotFoundError")
         ELSE IF service.pc \in {"finding", "refetching"}
           THEN [call EXCEPT !.pc = "returned"]
         ELSE IF service.op = "update" /\ ~valid THEN Throws(call, "ValidationError")
         ELSE [call EXCEPT !.pc = "mutating",
                           !.log = Append(@, Invocation(service.op, service.id,
                                                        NoArg, NoArg))]
  /\ UNCHANGED <<poolVars, singletonVars, sessionVars>>

(***************************************************************************)
(* repository.update or repository.delete is answered: delete returns,     *)
(* update calls getById again to fetch the updated record.                 *)
(***************************************************************************)
MutationAnswered(answer) ==
  /\ service.pc = "mutating"
  /\ LET call == [service EXCEPT !.log = Answered(@, answer)] IN
       service' =
         IF answer \in RepositoryFailures THEN Throws(call, answer)
         ELSE IF service.op = "delete" THEN [call EXCEPT !.pc = "returned"]
         ELSE [call EXCEPT !.pc = "refetching",
                           !.log = Append(@, Invocation("findById", service.id,
                                                        NoArg, NoArg))]
  /\ UNCHANGED <<poolVars, singletonVars, sessionVars>>

NextService ==
  \/ \E page \in Pages, limit \in Limits : GetAll(page, limit)
  \/ \E answer \in {"value"} \cup RepositoryFailures : GetAllAnswered(answer)
  \/ \E op \in {"getById", "update", "delete"}, id \in Ids : ById(op, id)
  \/ \E answer \in {"record", "null"} \cup RepositoryFailures, valid \in BOOLEAN :
       FindByIdAnswered(answer, valid)
  \/ \E answer \in {"value"} \cup RepositoryFailures : MutationAnswered(answer)

SpecService == InitService /\ [][NextService]_vars

---------------------------------------------------------------------------
\* the operations that hold connection c: acquire() gave it to them and
\* they have not released it
Holders(c) == {k \in Callers : callers[k].pc = "holding" /\ callers[k].conn = c}

\* the tickets whose promise is pending and whose callback is in the queue
LiveQueued == {t \in 1..Len(tickets) :
                 tickets[t].state = "pending" /\ WrapperFn(t) \in Elems(connectionQueue)}

(***************************************************************************)
(* C1: in every reachable state the number of connections in the          *)
(* available array plus the number in the active set is at most            *)
(* maxConnections.                                                         *)
(***************************************************************************)
C1_TotalWithinMax == Total <= maxConnections

(***************************************************************************)
(* C2: in every reachable state no connection is both in the available     *)
(* array and in the active set.                                            *)
(***************************************************************************)
C2_AvailableActiveDisjoint == Elems(availableConnections) \cap activeConnections = {}

(***************************************************************************)
(* C3: a connection has a single owner at a time: no two operations hold   *)
(* the same connection, each between its acquire() and its release().      *)
(***************************************************************************)
C3_SingleOwner == \A c \in Conns : Cardinality(Holders(c)) <= 1

---------------------------------------------------------------------------
\* this step is release(c) by operation k, called when its fn settled
ReleaseStep(k) ==
  /\ callers[k].pc = "holding"
  /\ callers'[k].pc \in {"returned", "threw"}

\* this step is the firing of an idle-eviction timer that evicts its connection
EvictionStep ==
  /\ idleTimers # <<>>
  /\ idleTimers' = Tail(idleTimers)
  /\ Len(availableConnections') < Len(availableConnections)

(***************************************************************************)
(* C4: waiters are served in the order in which they called acquire(): of  *)
(* two waiters that are both queued and pending, the one queued later is   *)
(* never given a connection while the one queued earlier still waits.      *)
(***************************************************************************)
C4_QueueIsFifo ==
  [][\A t1, t2 \in LiveQueued :
       t1 < t2 => ~(tickets'[t2].state = "resolved" /\ tickets'[t1].state = "pending")]_vars

\* C4's case: ticket 2 was queued behind ticket 1, ticket 1 has been given a
\* connection by a release and ticket 2 still waits
C4_Witness ==
  /\ Len(tickets) >= 2
  /\ tickets[2].queueSize = 2
  /\ tickets[1].state = "resolved"
  /\ callers[tickets[1].owner].via = "handoff"
  /\ tickets[2].state = "pending"
  /\ WrapperFn(2) \in Elems(connectionQueue)

C6_ExhaustedPoolQueues ==
  [][\A k \in Callers :
       (/\ callers[k].pc = "idle"
        /\ stats'.acquired = stats.acquired + 1
        /\ callers'[k] # callers[k]
        /\ Cardinality({c \in Conns : Holders(c) # {}}) = maxConnections
        /\ stats.released = 0)
       => /\ callers'[k].pc = "waiting"
          /\ clients' = clients]_vars

(***************************************************************************)
(* C7: when the timeout of a queued acquisition fires, its entry is        *)
(* removed from the wait queue: the queue no longer holds an entry of that *)
(* ticket and is one entry shorter.                                        *)
(***************************************************************************)
C7_TimeoutRemovesTicket ==
  [][\A t \in 1..Len(tickets) :
       (/\ tickets[t].state = "pending"
        /\ tickets'[t].state = "rejected"
        /\ destroyCalls' = destroyCalls)
       => /\ WrapperFn(t) \notin Elems(connectionQueue')
          /\ Len(connectionQueue') = Len(connectionQueue) - 1]_vars

C9_EvictionKeepsFloor ==
  [][EvictionStep
       => /\ Len(availableConnections) > minConnections
          /\ Len(availableConnections') >= minConnections]_vars

(***************************************************************************)
(* C10: idle eviction never disconnects a connection that is checked out:  *)
(* the connection an idle timer evicts is not in the active set.           *)
(***************************************************************************)
C10_EvictionSparesActive ==
  [][EvictionStep => Head(idleTimers) \notin activeConnections]_vars

---------------------------------------------------------------------------
\* this step is a call of destroy()
DestroyStep == destroyCalls' = destroyCalls + 1

\* the connections the pool tracks
Tracked == Elems(availableConnections) \cup activeConnections

(***************************************************************************)
(* C11: destroy() rejects every acquisition queued at the time of the call *)
(* with the pool-closing error, calls disconnect() on every connection of  *)
(* the available array and of the active set, and ends with the available  *)
(* array, the active set and the wait queue empty.                         *)
(***************************************************************************)
C11_DestroyRejectsAndEmpties ==
  [][DestroyStep
       => /\ \A t \in LiveQueued :
               /\ tickets'[t].state = "rejected"
               /\ callers'[tickets[t].owner].pc = "poolClosing"
          /\ \A c \in Tracked : clients'[c] = "disconnected"
          /\ availableConnections' = <<>>
          /\ activeConnections' = {}
          /\ connectionQueue' = <<>>]_vars

\* C11's case: destroy() was called once, while one operation was queued and
\* another held a connection: the first was rejected, the connection of the
\* second is disconnected and no longer tracked
C11_Witness ==
  /\ destroyCalls = 1
  /\ \E k \in Callers : callers[k].pc = "poolClosing"
  /\ \E k \in Callers :
       /\ callers[k].pc = "holding"
       /\ clients[callers[k].conn] = "disconnected"
       /\ callers[k].conn \notin Tracked
  /\ Total = 0
  /\ connectionQueue = <<>>

(***************************************************************************)
(* C12: destroy() is idempotent.  Every call, the first or a later one,    *)
(* leaves the pool with no tracked connection; a call on a pool that       *)
(* tracks no connection and has no queued acquisition, as a fresh pool or  *)
(* a pool just destroyed, changes nothing of the pool: destroy();destroy() *)
(* leaves what one destroy() leaves.                                       *)
(***************************************************************************)
C12_DestroyIdempotent ==
  [][DestroyStep
       => /\ Total' = 0
          /\ (Total = 0 /\ connectionQueue = <<>>)
               => /\ connectionQueue' = <<>>
                  /\ stats' = stats
                  /\ clients' = clients
                  /\ tickets' = tickets
                  /\ callers' = callers]_vars

\* C12's case: destroy() was called twice, one call on a pool with a
\* connection and one on a pool with none (no release and no eviction
\* happened, so the connection was destroyed by destroy())
C12_Witness ==
  /\ destroyCalls = 2
  /\ stats.created = 1
  /\ stats.destroyed = 1
  /\ stats.released = 0
  /\ Total = 0

(***************************************************************************)
(* C13: when disconnect() rejects for some tracked connections during      *)
(* destroy() (they are the tracked connections still connected after it),  *)
(* destroy() goes on to its end as it does without failure: disconnect()   *)
(* is called on every other tracked connection, and the available array,   *)
(* the active set and the wait queue are empty at the end.                 *)
(***************************************************************************)
C13_DestroyToleratesFailures ==
  [][LET failing == {c \in Tracked : clients'[c] = "connected"} IN
       (DestroyStep /\ failing # {})
       => /\ DestroyWith(failing)
          /\ \A c \in Tracked \ failing : clients'[c] = "disconnected"
          /\ availableConnections' = <<>>
          /\ activeConnections' = {}
          /\ connectionQueue' = <<>>]_vars

\* C13's case: destroy() has run on a pool that tracked two connections;
\* the disconnect() of one rejected and left it connected, the other one is
\* disconnected, and the pool tracks nothing
C13_Witness ==
  /\ destroyCalls >= 1
  /\ \E c1, c2 \in Conns :
       /\ clients[c1] = "connected"
       /\ clients[c2] = "disconnected"
  /\ stats.destroyed = 1
  /\ stats.released = 0
  /\ Total = 0
  /\ connectionQueue = <<>>

\* this step holds a call of acquire()
AcquireStep == stats'.acquired = stats.acquired + 1

(***************************************************************************)
(* C14: once destroy() has been called, a call of acquire() fails: the     *)
(* operation that made it ends with an error, it is given no connection,   *)
(* is not queued, and no client is constructed for it.                     *)
(***************************************************************************)
C14_AcquireFailsAfterDestroy ==
  [][(destroyCalls >= 1 /\ AcquireStep)
       => /\ \A k \in Callers :
               callers'[k] # callers[k]
                 => callers'[k].pc \in {"connectFailed", "timeout", "poolClosing"}
          /\ \A c \in Conns : clients[c] = "absent" => clients'[c] = "absent"]_vars

---------------------------------------------------------------------------
\* this step is a call of getInstance()
GetInstanceStep == Len(returned') = Len(returned) + 1

(***************************************************************************)
(* C15: getInstance() called without configuration while no instance       *)
(* exists throws, in the call itself, and creates nothing; called with a   *)
(* configuration while no instance exists it constructs a new pool with    *)
(* that configuration and returns it; called while an instance exists it   *)
(* returns that instance, whose configuration stays the one it was         *)
(* constructed with, whatever configuration the call is given.  The        *)
(* instance is cleared only by resetInstance(), which calls destroy().     *)
(***************************************************************************)
C15_SingletonAccessor ==
  [][/\ GetInstanceStep
          => LET r == returned'[Len(returned')] IN
               /\ (instance = NoInstance /\ r.config = NoConfig)
                    => /\ r.result = "threw"
                       /\ instance' = NoInstance
                       /\ pools' = pools
               /\ (instance = NoInstance /\ r.config # NoConfig)
                    => /\ r.result = "returned"
                       /\ r.pool = instance'
                       /\ instance' > pools
                       /\ r.min = r.config.min
                       /\ r.max = r.config.max
               /\ instance # NoInstance
                    => /\ r.result = "returned"
                       /\ r.pool = instance
                       /\ instance' = instance
                       /\ r.min = minConnections
                       /\ r.max = maxConnections
                       /\ pools' = pools
     /\ (instance # NoInstance /\ instance' # instance)
          => /\ instance' = NoInstance
             /\ DestroyStep]_vars

\* C15's case: the first call made the instance, the second call, with
\* another configuration, returned the same instance with the first
\* configuration, and after a resetInstance() a call without configuration
\* threw
C15_Witness ==
  /\ Len(returned) = 3
  /\ returned[1].result = "returned"
  /\ returned[2].config \notin {NoConfig, returned[1].config}
  /\ returned[2].pool = returned[1].pool
  /\ returned[2].min = returned[1].config.min
  /\ returned[2].max = returned[1].config.max
  /\ returned[3].config = NoConfig
  /\ returned[3].result = "threw"
  /\ destroyCalls = 1
  /\ instance = NoInstance

---------------------------------------------------------------------------
\* the error, or an error it wraps, at any depth, is e
RECURSIVE Carries(_, _)
Carries(error, e) ==
  \/ error = e
  \/ /\ "originalError" \in DOMAIN error
     /\ Carries(error.originalError, e)

(***************************************************************************)
(* C16: _authenticateWithRetry makes its attempts one after another, at    *)
(* most maxAttempts of them, and stops at the first that succeeds.  After  *)
(* the k-th failed attempt, k < maxAttempts, it sleeps                     *)
(* delayMs * backoffMultiplier^(k-1) and then makes attempt k+1; after the *)
(* failure of attempt maxAttempts it does not sleep; when an attempt       *)
(* succeeds it returns the user id of that attempt.                        *)
(***************************************************************************)
C16_RetryWithBackoff ==
  [][/\ connectCall'.attempt <= retry.maxAttempts
     /\ connectCall'.pc = "attempting"
          => Len(connectCall'.slept) = connectCall'.attempt - 1
     /\ \A i \in 1..Len(connectCall'.slept) :
          connectCall'.slept[i] = retry.delayMs * Pow(retry.backoffMultiplier, i - 1)
     /\ (connectCall.pc = "attempting" /\ connectCall' # connectCall)
          => \/ /\ connectCall'.pc = "resolved"
                /\ connectCall'.result \in Uids
                /\ connectCall'.attempt = connectCall.attempt
                /\ connectCall'.slept = connectCall.slept
             \/ /\ connectCall.attempt < retry.maxAttempts
                /\ connectCall'.pc = "sleeping"
                /\ connectCall'.attempt = connectCall.attempt
                /\ Len(connectCall'.slept) = connectCall.attempt
             \/ /\ connectCall.attempt = retry.maxAttempts
                /\ connectCall'.pc = "rejected"
                /\ connectCall'.attempt = connectCall.attempt
                /\ connectCall'.slept = connectCall.slept
     /\ (connectCall.pc = "sleeping" /\ connectCall' # connectCall)
          => /\ connectCall'.pc = "attempting"
             /\ connectCall'.attempt = connectCall.attempt + 1
             /\ connectCall'.slept = connectCall.slept
     /\ \A uid \in Uids : AttemptSucceeds(uid) => connectCall'.result = uid]_vars

\* C16's case: maxAttempts = 3, delayMs = 100, backoffMultiplier = 2; two
\* attempts failed, the third succeeded: three attempts, waits of 100 and 200
C16_Witness ==
  /\ retry = [maxAttempts |-> 3, delayMs |-> 100, backoffMultiplier |-> 2]
  /\ connectCall.pc = "resolved"
  /\ connectCall.attempt = 3
  /\ connectCall.slept = <<100, 200>>
  /\ connectCall.result \in Uids
  /\ client.uid = connectCall.result

(***************************************************************************)
(* C17: when all maxAttempts attempts of a connect() fail, the call fails  *)
(* with a ConnectionError that carries (wrapped in the ConnectionError of  *)
(* _authenticateWithRetry) the error of the last attempt, exactly          *)
(* maxAttempts attempts were made, and isConnected() is false; the next    *)
(* connect(), called by itself or by execute_kw(), starts again at attempt *)
(* 1 with nothing slept.                                                   *)
(***************************************************************************)
C17_ExhaustedRetriesFail ==
  [][/\ (connectCall' # connectCall /\ connectCall'.pc = "rejected")
          => /\ connectCall'.attempt = retry.maxAttempts
             /\ connectCall'.error.name = "OdooConnectionError"
             /\ connectCall'.lastError \in Errors
             /\ Carries(connectCall'.error, connectCall'.lastError)
             /\ \A e \in Errors : AttemptFails(e) => connectCall'.lastError = e
             /\ ~IsConnected(client')
     /\ (connectCall.pc = "rejected" /\ connectCall'.calls = connectCall.calls + 1)
          => /\ connectCall'.pc = "attempting"
             /\ connectCall'.attempt = 1
             /\ connectCall'.slept = <<>>
             /\ connectCall'.lastError = NoError]_vars

\* C17's case: a connect() failed after all its attempts, and the next
\* connect() made all its attempts again and failed too
C17_Witness ==
  /\ retry.maxAttempts = 3
  /\ connectCall.calls = 2
  /\ connectCall.previous = "rejected"
  /\ connectCall.pc = "rejected"
  /\ connectCall.attempt = 3
  /\ Len(connectCall.slept) = 2
  /\ ~IsConnected(client)

---------------------------------------------------------------------------
\* the operations that call acquire() in this step: connect() has returned
\* to them and acquire() has run to its return or to its first await
AcquireCalls ==
  {k \in Callers : /\ callers[k].pc \in {"idle", "initializing"}
                   /\ callers'[k].pc \in {"holding", "creating", "waiting"}}

(***************************************************************************)
(* C18: a call of acquire() adds exactly one to stats.acquired, whichever  *)
(* path it takes, and adds exactly one to stats.queuedRequests if and only *)
(* if it takes the queuing path (c); nothing else changes the two          *)
(* counters, whatever becomes of the call later.                           *)
(***************************************************************************)
C18_AcquireCounted ==
  [][/\ stats'.acquired = stats.acquired + Cardinality(AcquireCalls)
     /\ stats'.queuedRequests =
          stats.queuedRequests
            + Cardinality({k \in AcquireCalls : callers'[k].pc = "waiting"})]_vars

\* C18's case: three calls of acquire(); two were given an available
\* connection, one was queued and has timed out
C18_Witness ==
  /\ stats.acquired = 3
  /\ stats.queuedRequests = 1
  /\ \E k \in Callers : callers[k].pc = "timeout"
  /\ \E k \in Callers : callers[k].pc = "holding" /\ callers[k].via = "reuse"

(***************************************************************************)
(* C19: release(c) of a connection that is not in the active set changes   *)
(* nothing of the pool but the count of releases: the available array, the *)
(* active set and the wait queue stay as they are, no waiter is resolved   *)
(* and no idle-eviction timer is set.                                      *)
(***************************************************************************)
C19_UnknownReleaseIsNoOp ==
  [][\A k \in Callers :
       (ReleaseStep(k) /\ callers[k].conn \notin activeConnections)
       => /\ availableConnections' = availableConnections
          /\ activeConnections' = activeConnections
          /\ connectionQueue' = connectionQueue
          /\ tickets' = tickets
          /\ waitTimers' = waitTimers
          /\ idleTimers' = idleTimers
          /\ \A j \in Callers \ {k} : callers'[j] = callers[j]]_vars

\* C19's case: an operation has released a connection that was not in the
\* active set (destroy() had dropped it), while another operation was queued:
\* that operation still waits, in the queue
C19_Witness ==
  /\ \E k \in Callers :
       /\ callers[k].pc \in {"returned", "threw"}
       /\ callers[k].via = "unknown"
  /\ LiveQueued # {}
  /\ availableConnections = <<>>
  /\ idleTimers = <<>>

---------------------------------------------------------------------------
\* the initialize() of operation k, called on a pool that tracked nothing,
\* succeeds in this step: its last creation is pushed on the available array
\* (and the operation goes on to acquire())
InitializeSucceeds(k) ==
  /\ callers[k].pc = "initializing"
  /\ callers'[k].pc \in {"holding", "creating", "waiting"}

(***************************************************************************)
(* C20: when an initialize() that was called on a fresh pool succeeds, the *)
(* available array holds exactly minConnections connections, its own last  *)
(* one included, all connected, and the active set is empty; when the      *)
(* connect() of one of its sessions fails, the initialize() call fails.    *)
(***************************************************************************)
C20_InitializeFillsMin ==
  [][\A k \in Callers :
       /\ InitializeSucceeds(k)
            => /\ Len(availableConnections) + 1 = minConnections
               /\ \A c \in Elems(availableConnections) : clients[c] = "connected"
               /\ activeConnections = {}
       /\ (/\ callers[k].pc = "initializing"
           /\ \E c \in callers[k].init : clients'[c] = "failed")
            => callers'[k].pc = "connectFailed"]_vars

---------------------------------------------------------------------------
\* this step is a call of execute_kw()
ExecuteStep == executeCall'.calls = executeCall.calls + 1

\* in this step odoo.execute_kw is called: a remote call is issued
IssueStep == executeCall.pc # "calling" /\ executeCall'.pc = "calling"

(***************************************************************************)
(* C21: execute_kw() issues its remote call only when its connect() has    *)
(* returned, with the client authenticated at that time.  Called on an     *)
(* authenticated client, connect() makes no attempt and the call is issued *)
(* at once; called on a client that is not authenticated (a new one, or    *)
(* after disconnect()), connect() authenticates first and no call is       *)
(* issued until it has resolved.  When the remote call fails, execute_kw() *)
(* throws an OdooConnectionError whose originalError is the error of the   *)
(* library, never that error itself.                                       *)
(***************************************************************************)
C21_ExecuteConnectsFirst ==
  [][/\ IssueStep
          => /\ IsConnected(client')
             /\ connectCall'.pc = "resolved"
             /\ executeCall.pc = "connecting" \/ ExecuteStep
     /\ (ExecuteStep /\ IsConnected(client))
          => /\ IssueStep
             /\ connectCall'.attempt = 0
             /\ client' = client
     /\ (ExecuteStep /\ ~IsConnected(client))
          => /\ ~IssueStep
             /\ executeCall'.pc = "connecting"
             /\ connectCall'.pc = "attempting"
             /\ connectCall'.attempt = 1
     /\ (executeCall.pc = "calling" /\ executeCall'.pc = "threw")
          => /\ executeCall'.error \notin Errors
             /\ executeCall'.error.name = "OdooConnectionError"
             /\ executeCall'.error.originalError \in Errors
             /\ \A e \in Errors : CallFails(e) => executeCall'.error.originalError = e]_vars

\* C21's case: a first execute_kw() authenticated the new client; after a
\* disconnect() a second one authenticated again, in three attempts, issued
\* its remote call, which failed, and threw the wrapped error
C21_Witness ==
  /\ executeCall.calls = 2
  /\ connectCall.calls = 2
  /\ connectCall.previous = "resolved"
  /\ connectCall.pc = "resolved"
  /\ connectCall.attempt = 3
  /\ executeCall.pc = "threw"
  /\ executeCall.error.name = "OdooConnectionError"
  /\ executeCall.error.originalError \in Errors

---------------------------------------------------------------------------
\* the positions in the log of the calls of repository.update and repository.delete
Mutations == {i \in 1..Len(service.log) : service.log[i].fn \in {"update", "delete"}}

(***************************************************************************)
(* C22: update(id, data) and delete(id) look the record up before they     *)
(* mutate.  When findById answers the lookup with null the call throws     *)
(* NotFoundError and repository.update / repository.delete is not called;  *)
(* a call of repository.update / repository.delete comes after the lookup  *)
(* of the same id, which was answered with a record.                       *)
(***************************************************************************)
C22_ExistenceCheckedFirst ==
  service.op \in {"update", "delete"}
    => /\ (Len(service.log) >= 1 /\ service.log[1].answer = "null")
            => /\ service.pc = "threw"
               /\ service.error = "NotFoundError"
               /\ Mutations = {}
       /\ \A i \in Mutations :
            /\ i = 2
            /\ service.log[i].fn = service.op
            /\ service.log[i].id = service.id
            /\ service.log[1].fn = "findById"
            /\ service.log[1].id = service.id
            /\ service.log[1].answer = "record"

\* C22's case: update(2, data) ended with NotFoundError after the one call
\* it made to the repository, the lookup, was answered with null
C22_Witness ==
  /\ service.op = "update"
  /\ service.id = 2
  /\ service.pc = "threw"
  /\ service.error = "NotFoundError"
  /\ Len(service.log) = 1
  /\ service.log[1].fn = "findById"
  /\ service.log[1].answer = "null"

(***************************************************************************)
(* C23: getAll(page, limit) with page < 1, limit < 1 or limit > 100, and   *)
(* getById(id), update(id, data) and delete(id) with id <= 0, throw        *)
(* ValidationError and call nothing of the repository; for valid page and  *)
(* limit getAll calls findAll with that limit and offset (page-1)*limit.   *)
(***************************************************************************)
C23_InvalidInputRejected ==
  /\ (/\ service.op = "getAll"
      /\ service.page < 1 \/ service.limit < 1 \/ service.limit > 100)
       => /\ service.pc = "threw"
          /\ service.error = "ValidationError"
          /\ service.log = <<>>
  /\ (service.op \in {"getById", "update", "delete"} /\ service.id <= 0)
       => /\ service.pc = "threw"
          /\ service.error = "ValidationError"
          /\ service.log = <<>>
  /\ (/\ service.op = "getAll"
      /\ service.page >= 1 /\ service.limit >= 1 /\ service.limit <= 100)
       => /\ Len(service.log) = 2
          /\ service.log[1].fn = "findAll"
          /\ service.log[1].limit = service.limit
          /\ service.log[1].offset = (service.page - 1) * service.limit
          /\ service.log[2].fn = "count"

\* C23's case: getAll(1, 101) threw ValidationError and called nothing
C23_Witness ==
  /\ service.op = "getAll"
  /\ service.page = 1
  /\ service.limit = 101
  /\ service.pc = "threw"
  /\ service.error = "ValidationError"
  /\ service.log = <<>>

---------------------------------------------------------------------------
\* the clients constructed in this step
Constructed == {c \in Conns : clients[c] = "absent" /\ clients'[c] # "absent"}

(***************************************************************************)
(* C24: when the connect() of the session an acquire() creates on path (b) *)
(* fails, the call ends with the connection error, no other client is      *)
(* constructed for it, and neither the step in which acquire() was called  *)
(* nor the step in which it fails changes the available array, the active  *)
(* set, the wait queue or stats.created.                                   *)
(***************************************************************************)
C24_FailedCreateLeavesPool ==
  [][\A k \in Callers :
       /\ (callers[k].pc # "creating" /\ callers'[k].pc = "creating")
            => /\ Constructed = {callers'[k].conn}
               /\ availableConnections' = availableConnections
               /\ activeConnections' = activeConnections
               /\ connectionQueue' = connectionQueue
               /\ stats'.created = stats.created
       /\ (callers[k].pc = "creating" /\ clients'[callers[k].conn] = "failed")
            => /\ callers'[k] = Ended("connectFailed")
               /\ Constructed = {}
               /\ availableConnections' = availableConnections
               /\ activeConnections' = activeConnections
               /\ connectionQueue' = connectionQueue
               /\ stats'.created = stats.created]_vars

\* C24's case: the first operation holds the connection of initialize(); the
\* second called acquire(), which created a session on path (b), and ended
\* with the connection error: one connection was created and is tracked
C24_Witness ==
  /\ callers[1].pc = "holding"
  /\ callers[2].pc = "connectFailed"
  /\ \A k \in Callers \ {1, 2} : callers[k].pc = "idle"
  /\ stats.acquired = 2
  /\ stats.created = 1
  /\ clients[2] = "failed"
  /\ Total = 1
  /\ connectionQueue = <<>>

---------------------------------------------------------------------------
(***************************************************************************)
(* C25: a superseded idle-eviction timer never evicts.  When a release of  *)
(* a connection set a timer and a later release of the same connection,    *)
(* after it was acquired again, set another one, the older timer does not  *)
(* evict the connection: the timer that evicts a connection is the newest  *)
(* timer pending for it.                                                   *)
(***************************************************************************)
C25_SupersededTimerNeverEvicts ==
  [][EvictionStep => Head(idleTimers) \notin Elems(Tail(idleTimers))]_vars

(***************************************************************************)
(* C26: a connection destroyed by idle eviction is in neither the          *)
(* available array nor the active set from then on.  As long as destroy()  *)
(* has not been called, eviction is the only thing that disconnects, so no *)
(* tracked connection is disconnected.                                     *)
(***************************************************************************)
C26_EvictedStaysOut ==
  destroyCalls = 0 => \A c \in Tracked : clients[c] # "disconnected"

---------------------------------------------------------------------------
\* the sessions acquire() calls are creating on path (b)
Creating == {callers[k].conn : k \in {j \in Callers : callers[j].pc = "creating"}}

(***************************************************************************)
(* C27: the capacity check holds across the await of path (b): while       *)
(* acquire() calls are creating sessions, the sessions that exist in the   *)
(* pool and the sessions being created for acquire() are together at most  *)
(* maxConnections.                                                         *)
(***************************************************************************)
C27_CapacityHoldsAcrossAwait ==
  Creating # {} => Cardinality(Tracked \cup Creating) <= maxConnections

(***************************************************************************)
(* C28: connect() called by several operations on an empty pool runs       *)
(* initialize() once: at no time is more than one initialize() awaited,    *)
(* and at no time are more than minConnections sessions being created by   *)
(* initialization.                                                         *)
(***************************************************************************)
C28_InitializeOnce ==
  /\ Cardinality({k \in Callers : callers[k].pc = "initializing"}) <= 1
  /\ Cardinality(InitCreating) <= minConnections

---------------------------------------------------------------------------
(***************************************************************************)
(* C29: a released connection is never given to an acquisition that has    *)
(* timed out.  When release(c) is called for an active connection and no   *)
(* pending acquisition is queued, c goes to the available array, where a   *)
(* later acquire() finds it; and every connection in the active set is     *)
(* held by an operation, which will release it.                            *)
(***************************************************************************)
C29_NoHandoffToTimedOut ==
  [][/\ \A k \in Callers :
          (/\ ReleaseStep(k)
           /\ callers[k].conn \in activeConnections
           /\ LiveQueued = {})
          => /\ callers[k].conn \in Elems(availableConnections')
             /\ callers[k].conn \notin activeConnections'
     /\ \A c \in activeConnections : Holders(c) # {}]_vars

---------------------------------------------------------------------------
\* the promise of the t-th _waitForConnection() call is pending
Pending(t) == t <= Len(tickets) /\ tickets[t].state = "pending"

(***************************************************************************)
(* C30: every queued acquire() settles in the end, timers firing: the      *)
(* promise of each _waitForConnection() call is resolved by a release() or *)
(* rejected, by its timeout or by destroy().  It is settled once: a        *)
(* promise that is resolved or rejected stays as it is, and the operation  *)
(* that was given a connection is not rejected afterwards, nor is a        *)
(* rejected operation given a connection.                                  *)
(***************************************************************************)
C30_QueuedAcquireSettles ==
  /\ \A t \in Callers : Pending(t) ~> ~Pending(t)
  /\ [][\A t \in 1..Len(tickets) :
          /\ tickets[t].state # "pending" => tickets'[t] = tickets[t]
          /\ (tickets[t].state = "pending" /\ tickets'[t].state = "resolved")
               => /\ callers'[tickets[t].owner].pc = "holding"
                  /\ callers'[tickets[t].owner].via = "handoff"
          /\ (tickets[t].state = "pending" /\ tickets'[t].state = "rejected")
               => callers'[tickets[t].owner].pc \in {"timeout", "poolClosing"}
          /\ tickets[t].state = "rejected"
               => callers'[tickets[t].owner].pc \in {"timeout", "poolClosing"}]_vars

\* C30's case: two acquisitions were queued and both have settled, the
\* older one given a connection by a release, the other one rejected by its
\* timeout
C30_Witness ==
  /\ Len(tickets) = 2
  /\ tickets[1].state = "resolved"
  /\ callers[tickets[1].owner].via = "handoff"
  /\ tickets[2].state = "rejected"
  /\ callers[tickets[2].owner].pc = "timeout"

=============================================================================
